---- MODULE Spec2Model ----
(***************************************************************************)
(* LumosTrade agents: the model-error retry callback with exponential      *)
(* backoff (LumosChatAgent/agent.py) and the per-audience identity-token   *)
(* minting behind the MCP header providers (AuthHelper.py, MyTools.py).    *)
(*                                                                         *)
(* Times are in milliseconds: 0.1 s = 100, 10.0 s = 10000.                 *)
(***************************************************************************)
EXTENDS Integers, Sequences, FiniteSets, TLC

(* ------------------------------ bounds --------------------------------- *)
\* logical model requests (llm_request objects) created in one run
MaxRequests == 2
\* distinct values id(llm_request) can take (addresses the allocator reuses)
NumIds == 2
\* outbound tool calls (header-provider invocations) in one run
MaxCalls == 2
\* callback invocations made on the definitions run side by side
MaxInvocations == 3

(* ------------------------- program constants --------------------------- *)
RETRY_MAX_ATTEMPTS == 3
RETRY_INITIAL_DELAY == 100
RETRY_MAX_DELAY == 10000
RETRY_MULTIPLIER == 2
\* time.sleep(0.1) of rate_limit_callback
RATE_LIMIT_INTERVAL == 100

Requests == 1..MaxRequests
Ids == 1..NumIds
Calls == 1..MaxCalls
\* Python's None
None == "None"
NoValue == "no value yet"

VARIABLES
    state,          \* callback_context.state: entry name -> value
    pc,             \* where each request's thread of control stands
    reqId,          \* id(llm_request) of each request (0: object not allocated)
    retry_count,    \* local retry_count of the running invocation
    current_delay,  \* local current_delay of the running invocation
    ret,            \* value the last invocation returned to the framework
    signal,         \* branch the last invocation returned from
    sleeps,         \* durations time.sleep was called with, per request
    signals,        \* branches taken by the invocations made for a request
    fails,          \* failures of the model call met by each request
    found,          \* what the first invocation for a request found under its key
    start,          \* <<count, delay>> the first invocation for a request read
    cleared,        \* ids whose entries an exhaustion removed and nothing re-created
    owner,          \* request whose failure created the entry of an id
    borrowed,       \* requests that read or updated another request's entry
    slept,          \* ticks each request has spent in its current time.sleep
    throttle,       \* time rate_limit_callback blocked a request before its last dispatch
    rl_ret,         \* value rate_limit_callback last returned for a request
    sinceDispatch,  \* ticks since the last dispatch of a model call
                    \* (1: one or more, -1: nothing dispatched yet)
    lastGap,        \* ticks between the last two dispatches (-1: fewer than two)
    call,           \* the header-provider invocations, one record each
    runs            \* the three definitions of the callbacks, run side by side

retryVars == <<state, pc, reqId, retry_count, current_delay, ret, signal, sleeps,
               signals, fails, found, start, cleared, owner, borrowed,
               slept, throttle, rl_ret, sinceDispatch, lastGap>>

\* the variables of the requests and the retry callback
coreVars == <<state, pc, reqId, retry_count, current_delay, ret, signal, sleeps,
              signals, fails, found, start, cleared, owner, borrowed>>

\* the variables of the clock and the rate limiter
timeVars == <<slept, throttle, rl_ret, sinceDispatch, lastGap>>

vars == <<retryVars, call, runs>>

(* ------------------------------ helpers -------------------------------- *)
Min(a, b) == IF a <= b THEN a ELSE b

retry_key_Shared(request_id) == <<"retry_count", 0>>

\* retry_key = f"retry_count_{request_id}"
retry_key(request_id) == <<"retry_count", request_id>>

delay_key_Const(request_id) == <<"retry_delay", 0>>

delay_key_SameAsCount(request_id) == <<"retry_count", request_id>>

\* delay_key = f"retry_delay_{request_id}"
delay_key(request_id) == <<"retry_delay", request_id>>

\* callback_context.state[key] = value
SetItem(s, key, value) == [x \in DOMAIN s \cup {key} |-> IF x = key THEN value ELSE s[x]]

DelItem_Kept(s, key) == s

\* del callback_context.state[key]
DelItem(s, key) == [x \in DOMAIN s \ {key} |-> s[x]]

MaxAttemptsReached_OffByOne(count) == count >= RETRY_MAX_ATTEMPTS

MaxAttemptsReached_Never(count) == FALSE

MaxAttemptsReached_Late(count) == count > RETRY_MAX_ATTEMPTS

\* retry_count >= RETRY_MAX_ATTEMPTS - 1
MaxAttemptsReached(count) == count >= RETRY_MAX_ATTEMPTS - 1

next_delay_Same(delay) == delay

next_delay_Shrinks(delay) == delay \div RETRY_MULTIPLIER

next_delay_Additive(delay) == Min(delay + RETRY_INITIAL_DELAY, RETRY_MAX_DELAY)

next_delay_Tripled(delay) == Min(delay * (RETRY_MULTIPLIER + 1), RETRY_MAX_DELAY)

\* next_delay = min(current_delay * RETRY_MULTIPLIER, RETRY_MAX_DELAY)
next_delay(delay) == Min(delay * RETRY_MULTIPLIER, RETRY_MAX_DELAY)

\* the clock advances in ticks of one rate-limit interval
TickMs == RATE_LIMIT_INTERVAL

\* time.sleep(duration) returns once at least duration has passed
SleepOver(ticks, duration) == ticks * TickMs >= duration

RateLimitSleep_Skipped == RATE_LIMIT_INTERVAL - RATE_LIMIT_INTERVAL

\* the argument of time.sleep in rate_limit_callback
RateLimitSleep == RATE_LIMIT_INTERVAL

\* rate_limit_callback has no return statement
RateLimitReturn == None

\* return None  # Re-raise the exception
ExhaustedReturn == None

\* return None, under the comment "Return None to retry the request"
RetryReturn == None

\* positions at which a request's llm_request object no longer exists
Ended == {"new", "succeeded", "surfaced", "raised"}

\* ids of the llm_request objects that are alive: id() is unique among them
LiveIds == {reqId[r] : r \in {q \in Requests : pc[q] \notin Ended}}

\* id() of a newly allocated llm_request: any address no live object holds
FreshIds == Ids \ LiveIds

(* ------------------------------- Init ---------------------------------- *)
RetryInit ==
    /\ state = <<>>
    /\ pc = [r \in Requests |-> "new"]
    /\ reqId = [r \in Requests |-> 0]
    /\ retry_count = [r \in Requests |-> 0]
    /\ current_delay = [r \in Requests |-> 0]
    /\ ret = [r \in Requests |-> NoValue]
    /\ signal = [r \in Requests |-> NoValue]
    /\ sleeps = [r \in Requests |-> <<>>]
    /\ signals = [r \in Requests |-> <<>>]
    /\ fails = [r \in Requests |-> 0]
    /\ found = [r \in Requests |-> NoValue]
    /\ start = [r \in Requests |-> <<>>]
    /\ cleared = {}
    /\ owner = [i \in Ids |-> 0]
    /\ borrowed = {}
    /\ slept = [r \in Requests |-> 0]
    /\ throttle = [r \in Requests |-> 0]
    /\ rl_ret = [r \in Requests |-> NoValue]
    /\ sinceDispatch = -1
    /\ lastGap = -1

(* --------------------- the framework around the callback --------------- *)
\* The framework builds an llm_request; before_model_callback runs first.
NewRequest(r) ==
    /\ pc[r] = "new"
    /\ \A q \in Requests : q < r => pc[q] # "new"
    /\ \E i \in FreshIds : reqId' = [reqId EXCEPT ![r] = i]
    /\ pc' = [pc EXCEPT ![r] = "L23"]
    /\ UNCHANGED <<state, retry_count, current_delay, ret, signal, sleeps,
                   signals, fails, found, start, cleared, owner, borrowed, call, runs, timeVars>>

\* The model call raises: on_model_error_callback runs retry_on_error_callback.
ModelError(r) ==
    /\ pc[r] = "calling"
    /\ fails' = [fails EXCEPT ![r] = @ + 1]
    /\ pc' = [pc EXCEPT ![r] = "L38"]
    /\ UNCHANGED <<state, reqId, retry_count, current_delay, ret, signal,
                   sleeps, signals, found, start, cleared, owner, borrowed, call, runs, timeVars>>

\* The model call answers: no callback of this module runs, the request ends.
ModelSuccess(r) ==
    /\ pc[r] = "calling"
    /\ pc' = [pc EXCEPT ![r] = "succeeded"]
    /\ UNCHANGED <<state, reqId, retry_count, current_delay, ret, signal,
                   sleeps, signals, fails, found, start, cleared, owner, borrowed, call, runs, timeVars>>

\* The callback took the retry branch and the framework issues the call again,
\* before_model_callback first.
Reissue(r) ==
    /\ pc[r] = "returned"
    /\ signal[r] = "retry"
    /\ pc' = [pc EXCEPT ![r] = "L23"]
    /\ UNCHANGED <<state, reqId, retry_count, current_delay, ret, signal,
                   sleeps, signals, fails, found, start, cleared, owner, borrowed, call, runs, timeVars>>

\* The framework raises the model error to its caller; the request ends.
Surface(r) ==
    /\ pc[r] = "returned"
    /\ pc' = [pc EXCEPT ![r] = "surfaced"]
    /\ UNCHANGED <<state, reqId, retry_count, current_delay, ret, signal,
                   sleeps, signals, fails, found, start, cleared, owner, borrowed, call, runs, timeVars>>

(* --------------------------- rate_limit_callback ----------------------- *)
\* time.sleep(0.1); the callback returns and the framework goes on
rate_limit_callback(r) ==
    /\ pc[r] = "L23"
    /\ SleepOver(slept[r], RateLimitSleep)
    /\ throttle' = [throttle EXCEPT ![r] = slept[r] * TickMs]
    /\ slept' = [slept EXCEPT ![r] = 0]
    /\ rl_ret' = [rl_ret EXCEPT ![r] = RateLimitReturn]
    /\ pc' = [pc EXCEPT ![r] = "ready"]
    /\ UNCHANGED <<state, reqId, retry_count, current_delay, ret, signal, sleeps,
                   signals, fails, found, start, cleared, owner, borrowed, call, runs,
                   sinceDispatch, lastGap>>

\* The framework dispatches the model call.
Dispatch(r) ==
    /\ pc[r] = "ready"
    /\ lastGap' = sinceDispatch
    /\ sinceDispatch' = 0
    /\ pc' = [pc EXCEPT ![r] = "calling"]
    /\ UNCHANGED <<state, reqId, retry_count, current_delay, ret, signal, sleeps,
                   signals, fails, found, start, cleared, owner, borrowed, call, runs,
                   slept, throttle, rl_ret>>

\* the sleep a request is in, if any
Sleeping(r) == pc[r] \in {"L23", "L56"}
SleepDuration(r) == IF pc[r] = "L23" THEN RateLimitSleep ELSE current_delay[r]

\* One tick of time passes for every thread.
Tick ==
    /\ \/ sinceDispatch = 0
       \/ \E r \in Requests : Sleeping(r) /\ ~SleepOver(slept[r], SleepDuration(r))
    /\ slept' = [r \in Requests |->
                    IF Sleeping(r) /\ ~SleepOver(slept[r], SleepDuration(r))
                    THEN slept[r] + 1 ELSE slept[r]]
    /\ sinceDispatch' = IF sinceDispatch = 0 THEN 1 ELSE sinceDispatch
    /\ UNCHANGED <<coreVars, call, runs, throttle, rl_ret, lastGap>>

(* ------------------------ retry_on_error_callback ---------------------- *)
\* if retry_key not in state: state[retry_key] = 0
L38(r) ==
    /\ pc[r] = "L38"
    /\ found' = [found EXCEPT ![r] =
                   IF fails[r] > 1 THEN @
                   ELSE IF retry_key(reqId[r]) \in DOMAIN state THEN "stale"
                   ELSE IF reqId[r] \in cleared THEN "cleared"
                   ELSE "none"]
    /\ IF retry_key(reqId[r]) \notin DOMAIN state
       THEN /\ state' = SetItem(state, retry_key(reqId[r]), 0)
            /\ owner' = [owner EXCEPT ![reqId[r]] = r]
            /\ cleared' = cleared \ {reqId[r]}
            /\ pc' = [pc EXCEPT ![r] = "L40"]
       ELSE /\ pc' = [pc EXCEPT ![r] = "L42"]
            /\ UNCHANGED <<state, owner, cleared>>
    /\ UNCHANGED <<reqId, retry_count, current_delay, ret, signal, sleeps,
                   signals, fails, start, borrowed, call, runs, timeVars>>

\* state[delay_key] = RETRY_INITIAL_DELAY
L40(r) ==
    /\ pc[r] = "L40"
    /\ state' = SetItem(state, delay_key(reqId[r]), RETRY_INITIAL_DELAY)
    /\ pc' = [pc EXCEPT ![r] = "L42"]
    /\ UNCHANGED <<reqId, retry_count, current_delay, ret, signal, sleeps,
                   signals, fails, found, start, cleared, owner, borrowed, call, runs, timeVars>>

\* retry_count = state[retry_key]; current_delay = state[delay_key];
\* if retry_count >= RETRY_MAX_ATTEMPTS - 1
\* (a subscript on a missing key raises KeyError out of the callback)
L42(r) ==
    /\ pc[r] = "L42"
    /\ IF {retry_key(reqId[r]), delay_key(reqId[r])} \subseteq DOMAIN state
       THEN /\ retry_count' = [retry_count EXCEPT ![r] = state[retry_key(reqId[r])]]
            /\ current_delay' = [current_delay EXCEPT ![r] = state[delay_key(reqId[r])]]
            /\ borrowed' = IF owner[reqId[r]] # r THEN borrowed \cup {r} ELSE borrowed
            /\ pc' = [pc EXCEPT ![r] =
                        IF MaxAttemptsReached(state[retry_key(reqId[r])])
                        THEN "L48" ELSE "L53"]
            /\ start' = [start EXCEPT ![r] =
                           IF fails[r] > 1 THEN @
                           ELSE <<state[retry_key(reqId[r])],
                                  state[delay_key(reqId[r])]>>]
       ELSE /\ pc' = [pc EXCEPT ![r] = "raised"]
            /\ UNCHANGED <<retry_count, current_delay, borrowed, start>>
    /\ UNCHANGED <<state, reqId, ret, signal, sleeps, signals, fails, found,
                   cleared, owner, call, runs, timeVars>>

\* del state[retry_key]
L48(r) ==
    /\ pc[r] = "L48"
    /\ IF retry_key(reqId[r]) \in DOMAIN state
       THEN /\ state' = DelItem(state, retry_key(reqId[r]))
            /\ pc' = [pc EXCEPT ![r] = "L49"]
       ELSE /\ pc' = [pc EXCEPT ![r] = "raised"]
            /\ UNCHANGED state
    /\ UNCHANGED <<reqId, retry_count, current_delay, ret, signal, sleeps,
                   signals, fails, found, start, cleared, owner, borrowed, call, runs, timeVars>>

\* del state[delay_key]; return None  # Re-raise the exception
L49(r) ==
    /\ pc[r] = "L49"
    /\ IF delay_key(reqId[r]) \in DOMAIN state
       THEN /\ state' = DelItem(state, delay_key(reqId[r]))
            /\ owner' = [owner EXCEPT ![reqId[r]] = 0]
            /\ cleared' = cleared \cup {reqId[r]}
            /\ ret' = [ret EXCEPT ![r] = ExhaustedReturn]
            /\ signal' = [signal EXCEPT ![r] = "propagate"]
            /\ signals' = [signals EXCEPT ![r] = Append(@, "propagate")]
            /\ pc' = [pc EXCEPT ![r] = "returned"]
       ELSE /\ pc' = [pc EXCEPT ![r] = "raised"]
            /\ UNCHANGED <<state, owner, cleared, ret, signal, signals>>
    /\ UNCHANGED <<reqId, retry_count, current_delay, sleeps, fails, found,
                   start, borrowed, call, runs, timeVars>>

\* state[retry_key] = retry_count + 1
L53(r) ==
    /\ pc[r] = "L53"
    /\ state' = SetItem(state, retry_key(reqId[r]), retry_count[r] + 1)
    /\ pc' = [pc EXCEPT ![r] = "L56"]
    /\ UNCHANGED <<reqId, retry_count, current_delay, ret, signal, sleeps,
                   signals, fails, found, start, cleared, owner, borrowed, call, runs, timeVars>>

\* time.sleep(current_delay)
L56(r) ==
    /\ pc[r] = "L56"
    /\ SleepOver(slept[r], current_delay[r])
    /\ sleeps' = [sleeps EXCEPT ![r] = Append(@, current_delay[r])]
    /\ slept' = [slept EXCEPT ![r] = 0]
    /\ pc' = [pc EXCEPT ![r] = "L59"]
    /\ UNCHANGED <<state, reqId, retry_count, current_delay, ret, signal,
                   signals, fails, found, start, cleared, owner, borrowed, call, runs,
                   throttle, rl_ret, sinceDispatch, lastGap>>

\* state[delay_key] = next_delay; return None  # to retry the request
L59(r) ==
    /\ pc[r] = "L59"
    /\ state' = SetItem(state, delay_key(reqId[r]), next_delay(current_delay[r]))
    /\ ret' = [ret EXCEPT ![r] = RetryReturn]
    /\ signal' = [signal EXCEPT ![r] = "retry"]
    /\ signals' = [signals EXCEPT ![r] = Append(@, "retry")]
    /\ pc' = [pc EXCEPT ![r] = "returned"]
    /\ UNCHANGED <<reqId, retry_count, current_delay, sleeps, fails, found, start, cleared,
                   owner, borrowed, call, runs, timeVars>>

retry_on_error_callback(r) ==
    \/ L38(r) \/ L40(r) \/ L42(r) \/ L48(r) \/ L49(r)
    \/ L53(r) \/ L56(r) \/ L59(r)

RetryNext ==
    \/ Tick
    \/ \E r \in Requests :
        \/ NewRequest(r)
        \/ rate_limit_callback(r)
        \/ Dispatch(r)
        \/ ModelError(r)
        \/ ModelSuccess(r)
        \/ Reissue(r)
        \/ Surface(r)
        \/ retry_on_error_callback(r)

(* ================== AuthHelper.py and MyTools.py ====================== *)
\* TOOL_LUMOSDB_SERVICE_URL and TOOL_LUMOSTRADE_SERVICE_URL as configured
lumosdb_service_url == "https://lumosdb.example"
lumostrade_service_url == "https://lumostrade.example"

\* Text is a sequence of pieces: literals, white space, identity tokens.
Lit(str) == [t |-> "lit", a |-> str, b |-> "", n |-> 0]
Space(str) == [t |-> "ws", a |-> str, b |-> "", n |-> 0]
\* an identity token: its audience claim and the path that minted it; n is
\* the call it was issued to, 0 until it is issued
Jwt(aud, by) == [t |-> "jwt", a |-> aud, b |-> by, n |-> 0]

\* str.strip(): drop leading and trailing white space
RECURSIVE LStrip(_)
LStrip(text) ==
    IF text # <<>> /\ Head(text).t = "ws" THEN LStrip(Tail(text)) ELSE text

RECURSIVE RStrip(_)
RStrip(text) ==
    IF text # <<>> /\ text[Len(text)].t = "ws"
    THEN RStrip(SubSeq(text, 1, Len(text) - 1)) ELSE text

strip_Missing(text) == text

strip(text) == RStrip(LStrip(text))

\* every token a mint issues is a new one: it carries the call it was issued to
Stamp(text, c) ==
    [k \in DOMAIN text |->
        IF text[k].t = "jwt" THEN [text[k] EXCEPT !.n = c] ELSE text[k]]

\* f"Bearer {token}"
Bearer(token) == <<Lit("Bearer ")>> \o token

\* what gcloud auth print-identity-token writes to stdout for an audience
GcloudStdout(aud) ==
    { <<Jwt(aud, "gcloud"), Space("\n")>>,
      <<Jwt(aud, "gcloud")>>,
      <<Space(" "), Jwt(aud, "gcloud"), Space("\n")>> }

\* values os.environ.get("AGENT_SERVICE_ACCOUNT") can give: unset, or an identity
ServiceAccountSettings == {"None", "agent@project.iam"}

Truthy_Always(v) == TRUE

\* if agent_service_account:
Truthy(v) == v \notin {"None", ""}

\* except subprocess.CalledProcessError: pass
InnerCatches(exc) == exc = "CalledProcessError"

\* the message of the DefaultCredentialsError raised at lines 58-63
RemediationText ==
    << Lit("No Application Default Credentials found. "),
       Lit("If running locally, "),
       Lit("set GOOGLE_APPLICATION_CREDENTIALS to a service-account key or run 'gcloud auth application-default login'. "),
       Lit("If running in Cloud Run, "),
       Lit("ensure the service has a service account and metadata server access.") >>

\* the message of the RuntimeError raised at lines 65-67
FetchFailedText ==
    << Lit("Failed to fetch Google ID token. Verify ADC is configured and the audience URL is correct.") >>

NoResult == [kind |-> "none", type |-> "", value |-> <<>>]
Returned(value) == [kind |-> "value", type |-> "str", value |-> value]
Raised(type, text) == [kind |-> "error", type |-> type, value |-> text]

OuterHandler_ExceptionFirst(exc) ==
    [kind |-> "error", type |-> "RuntimeError",
     value |-> << [t |-> "lit", a |-> "Failed to fetch Google ID token.", b |-> "", n |-> 0] >>]

\* except DefaultCredentialsError ... / except Exception ...: what the outer
\* handlers of get_id_token_for_service raise for an exception of the body
OuterHandler(exc) ==
    IF exc = "DefaultCredentialsError"
    THEN Raised("DefaultCredentialsError", RemediationText)
    ELSE Raised("RuntimeError", FetchFailedText)

ProviderCatches_RuntimeErrorOnly(type) == type = "RuntimeError"

\* except Exception as e: of the header providers
ProviderCatches(type) == type \in {"DefaultCredentialsError", "RuntimeError"}

\* the audience get_lumosdb_auth_headers asks a token for
LumosDBAudience == lumosdb_service_url

LumosTradeAudience_Copied == "https://lumosdb.example"

\* the audience get_lumostrade_auth_headers asks a token for
LumosTradeAudience == lumostrade_service_url

ProviderToken_Cached(c) == call[1].result.value

\* what the provider puts under "Authorization": the string that its own call
\* of get_id_token_for_service returned
ProviderToken(c) == call[c].result.value

\* mints counts the calls of get_id_token_for_service the provider has made,
\* stdout is what the CLI printed
IdleCall ==
    [pc |-> "idle", svc |-> "", audience_url |-> "", adc |-> FALSE,
     agent_service_account |-> "", steps |-> <<>>, cli |-> "", stdout |-> <<>>,
     exc |-> "", result |-> NoResult, headers |-> <<>>, mints |-> 0]

AuthInit == call = [c \in Calls |-> IdleCall]

\* The toolset calls header_provider=get_lumosdb_auth_headers.
get_lumosdb_auth_headers(c) ==
    /\ call[c].pc = "idle"
    /\ \A d \in Calls : d < c => call[d].pc # "idle"
    /\ \E adc \in BOOLEAN :
           call' = [call EXCEPT ![c].pc = "L29", ![c].svc = "LumosDB",
                                ![c].audience_url = LumosDBAudience,
                                ![c].mints = @ + 1,
                                ![c].adc = adc]
    /\ UNCHANGED <<retryVars, runs>>

\* The toolset calls header_provider=get_lumostrade_auth_headers.
get_lumostrade_auth_headers(c) ==
    /\ call[c].pc = "idle"
    /\ \A d \in Calls : d < c => call[d].pc # "idle"
    /\ \E adc \in BOOLEAN :
           call' = [call EXCEPT ![c].pc = "L29", ![c].svc = "LumosTradeTool",
                                ![c].audience_url = LumosTradeAudience,
                                ![c].mints = @ + 1,
                                ![c].adc = adc]
    /\ UNCHANGED <<retryVars, runs>>

\* agent_service_account = os.environ.get(...); if agent_service_account:
A29(c) ==
    /\ call[c].pc = "L29"
    /\ \E v \in ServiceAccountSettings :
           call' = [call EXCEPT ![c].agent_service_account = v,
                                ![c].pc = IF Truthy(v) THEN "L33" ELSE "L52"]
    /\ UNCHANGED <<retryVars, runs>>

\* subprocess.run(["gcloud", ...], check=True): the binary is missing
\* (FileNotFoundError), exits non-zero (CalledProcessError) or prints a token;
\* token = result.stdout.strip(); return f"Bearer {token}"
A33(c) ==
    /\ call[c].pc = "L33"
    /\ \/ \E x \in {"FileNotFoundError", "CalledProcessError"} :
              call' = [call EXCEPT ![c].steps = Append(@, "gcloud"),
                                   ![c].cli = x,
                                   ![c].exc = x,
                                   ![c].pc = IF InnerCatches(x) THEN "L52" ELSE "L57"]
       \/ \E out \in GcloudStdout(call[c].audience_url) :
              call' = [call EXCEPT ![c].steps = Append(@, "gcloud"),
                                   ![c].cli = "ok",
                                   ![c].stdout = Stamp(out, c),
                                   ![c].result = Returned(Bearer(strip(Stamp(out, c)))),
                                   ![c].pc = "returned"]
    /\ UNCHANGED <<retryVars, runs>>

\* credentials, project = google.auth.default()
A52(c) ==
    /\ call[c].pc = "L52"
    /\ IF call[c].adc
       THEN call' = [call EXCEPT ![c].steps = Append(@, "default"),
                                 ![c].pc = "L54"]
       ELSE call' = [call EXCEPT ![c].steps = Append(@, "default"),
                                 ![c].exc = "DefaultCredentialsError",
                                 ![c].pc = "L57"]
    /\ UNCHANGED <<retryVars, runs>>

\* credentials.refresh(auth_req)
A54(c) ==
    /\ call[c].pc = "L54"
    /\ \/ call' = [call EXCEPT ![c].steps = Append(@, "refresh"), ![c].pc = "L55"]
       \/ call' = [call EXCEPT ![c].steps = Append(@, "refresh"),
                               ![c].exc = "RefreshError", ![c].pc = "L57"]
    /\ UNCHANGED <<retryVars, runs>>

\* token = id_token.fetch_id_token(auth_req, audience_url); return f"Bearer {token}"
A55(c) ==
    /\ call[c].pc = "L55"
    /\ \/ call' = [call EXCEPT
                      ![c].steps = Append(@, "fetch_id_token"),
                      ![c].result = Returned(Bearer(Stamp(<<Jwt(call[c].audience_url, "adc")>>, c))),
                      ![c].pc = "returned"]
       \/ \E x \in {"DefaultCredentialsError", "TransportError"} :
              call' = [call EXCEPT ![c].steps = Append(@, "fetch_id_token"),
                                   ![c].exc = x, ![c].pc = "L57"]
    /\ UNCHANGED <<retryVars, runs>>

\* the except clauses of get_id_token_for_service
A57(c) ==
    /\ call[c].pc = "L57"
    /\ call' = [call EXCEPT ![c].result = OuterHandler(call[c].exc),
                            ![c].pc = "raised"]
    /\ UNCHANGED <<retryVars, runs>>

get_id_token_for_service(c) ==
    A29(c) \/ A33(c) \/ A52(c) \/ A54(c) \/ A55(c) \/ A57(c)

\* return {"Authorization": get_id_token_for_service(url)}
ProviderReturn(c) ==
    /\ call[c].pc = "returned"
    /\ call' = [call EXCEPT ![c].headers = [Authorization |-> ProviderToken(c)],
                            ![c].pc = "done"]
    /\ UNCHANGED <<retryVars, runs>>

\* except Exception as e: print(...); return {}
ProviderExcept(c) ==
    /\ call[c].pc = "raised"
    /\ call' = [call EXCEPT ![c].pc =
                   IF ProviderCatches(call[c].result.type) THEN "done" ELSE "escaped"]
    /\ UNCHANGED <<retryVars, runs>>

AuthNext ==
    \E c \in Calls :
        \/ get_lumosdb_auth_headers(c)
        \/ get_lumostrade_auth_headers(c)
        \/ get_id_token_for_service(c)
        \/ ProviderReturn(c)
        \/ ProviderExcept(c)

(* ========= the three definitions of the callbacks, side by side ======== *)
\* LumosChatAgent/GoogleTools.py
GoogleTools_RETRY_MAX_ATTEMPTS == 3
GoogleTools_RETRY_INITIAL_DELAY == 100
GoogleTools_RETRY_MAX_DELAY == 10000
GoogleTools_RETRY_MULTIPLIER == 2
GoogleTools_RateLimitSleep == 100

Conjure_RETRY_MAX_ATTEMPTS_Four == RETRY_MAX_ATTEMPTS + 1

\* LumosConjureAgent/agent.py
Conjure_RETRY_MAX_ATTEMPTS == 3
Conjure_RETRY_INITIAL_DELAY == 100
Conjure_RETRY_MAX_DELAY == 10000
Conjure_RETRY_MULTIPLIER == 2
Conjure_RateLimitSleep == 100

\* a or b, of Python
Or(a, b) == IF Truthy(a) THEN a ELSE b

\* what one invocation did: the state it left, the branch it returned from
\* ("KeyError" when it raised), the value returned and the sleeps it made
Outcome(s, branch, value, slept_for) ==
    [state |-> s, signal |-> branch, ret |-> value, sleep |-> slept_for]

Exhausted_OnQuota(count, err) ==
    count >= RETRY_MAX_ATTEMPTS - 1 \/ err = "ResourceExhausted"

\* if retry_count >= RETRY_MAX_ATTEMPTS - 1, where err is in scope
Exhausted(count, err) == MaxAttemptsReached(count)

\* retry_on_error_callback of LumosChatAgent/agent.py, one whole invocation
Agent_retry_on_error_callback(s, request_id, error, exception) ==
    LET err == Or(error, exception)
        s1 == IF retry_key(request_id) \notin DOMAIN s
              THEN SetItem(SetItem(s, retry_key(request_id), 0),
                           delay_key(request_id), RETRY_INITIAL_DELAY)
              ELSE s
    IN  IF delay_key(request_id) \notin DOMAIN s1
        THEN Outcome(s1, "KeyError", NoValue, <<>>)
        ELSE IF Exhausted(s1[retry_key(request_id)], err)
        THEN Outcome(DelItem(DelItem(s1, retry_key(request_id)), delay_key(request_id)),
                     "propagate", ExhaustedReturn, <<>>)
        ELSE Outcome(SetItem(SetItem(s1, retry_key(request_id),
                                     s1[retry_key(request_id)] + 1),
                             delay_key(request_id),
                             next_delay(s1[delay_key(request_id)])),
                     "retry", RetryReturn, <<s1[delay_key(request_id)]>>)

\* retry_on_error_callback of LumosChatAgent/GoogleTools.py
GoogleTools_retry_on_error_callback(s, request_id, error, exception) ==
    LET err == Or(error, exception)
        rk == <<"retry_count", request_id>>
        dk == <<"retry_delay", request_id>>
        s1 == IF rk \notin DOMAIN s
              THEN SetItem(SetItem(s, rk, 0), dk, GoogleTools_RETRY_INITIAL_DELAY)
              ELSE s
    IN  IF dk \notin DOMAIN s1
        THEN Outcome(s1, "KeyError", NoValue, <<>>)
        ELSE IF s1[rk] >= GoogleTools_RETRY_MAX_ATTEMPTS - 1
        THEN Outcome(DelItem(DelItem(s1, rk), dk), "propagate", None, <<>>)
        ELSE Outcome(SetItem(SetItem(s1, rk, s1[rk] + 1), dk,
                             Min(s1[dk] * GoogleTools_RETRY_MULTIPLIER,
                                 GoogleTools_RETRY_MAX_DELAY)),
                     "retry", None, <<s1[dk]>>)

\* retry_on_error_callback of LumosConjureAgent/agent.py
Conjure_retry_on_error_callback(s, request_id, error, exception) ==
    LET err == Or(error, exception)
        rk == <<"retry_count", request_id>>
        dk == <<"retry_delay", request_id>>
        s1 == IF rk \notin DOMAIN s
              THEN SetItem(SetItem(s, rk, 0), dk, Conjure_RETRY_INITIAL_DELAY)
              ELSE s
    IN  IF dk \notin DOMAIN s1
        THEN Outcome(s1, "KeyError", NoValue, <<>>)
        ELSE IF s1[rk] >= Conjure_RETRY_MAX_ATTEMPTS - 1
        THEN Outcome(DelItem(DelItem(s1, rk), dk), "propagate", None, <<>>)
        ELSE Outcome(SetItem(SetItem(s1, rk, s1[rk] + 1), dk,
                             Min(s1[dk] * Conjure_RETRY_MULTIPLIER,
                                 Conjure_RETRY_MAX_DELAY)),
                     "retry", None, <<s1[dk]>>)

\* rate_limit_callback of the three files: time.sleep(0.1), no return statement
Agent_rate_limit_callback(s) == Outcome(s, "proceed", RateLimitReturn, <<RateLimitSleep>>)
GoogleTools_rate_limit_callback(s) == Outcome(s, "proceed", None, <<GoogleTools_RateLimitSleep>>)
Conjure_rate_limit_callback(s) == Outcome(s, "proceed", None, <<Conjure_RateLimitSleep>>)

\* the (error, exception) arguments the framework may pass
ErrorInputs == { <<"ResourceExhausted", "None">>, <<"None", "ServerError">> }

\* the delay stored after n retries
RECURSIVE DelayAfter(_)
DelayAfter(n) == IF n = 0 THEN RETRY_INITIAL_DELAY ELSE next_delay(DelayAfter(n - 1))

\* states an invocation sequence may start from: nothing stored, or the
\* entries a request left under id 1 after one or two retries
StartStates ==
    { <<>> } \cup
    { SetItem(SetItem(<<>>, <<"retry_count", 1>>, n), <<"retry_delay", 1>>,
              DelayAfter(n)) : n \in 1..(RETRY_MAX_ATTEMPTS - 1) }

\* one run: the state, and the signals, returned values and sleeps so far
NewRun(s) == [state |-> s, signals |-> <<>>, rets |-> <<>>, sleeps |-> <<>>]

\* the run after one more invocation
After(run, out) ==
    [state |-> out.state, signals |-> Append(run.signals, out.signal),
     rets |-> Append(run.rets, out.ret), sleeps |-> run.sleeps \o out.sleep]

\* agent, google, conjure: the three definitions on the same invocations;
\* other: the definition of agent.py on the same invocations with errors of
\* its own; given and others: the errors passed so far
RunsFrom(s) ==
    [agent |-> NewRun(s), google |-> NewRun(s), conjure |-> NewRun(s),
     other |-> NewRun(s), given |-> <<>>, others |-> <<>>]

IdleRuns == RunsFrom(<<>>)

RunsInit == RetryInit /\ AuthInit /\ runs \in {RunsFrom(s) : s \in StartStates}

\* The framework reports a model error for the request with the given id.
InvokeRetry ==
    /\ Len(runs.agent.signals) < MaxInvocations
    /\ \E request_id \in Ids, e \in ErrorInputs, o \in ErrorInputs :
           runs' = [agent |-> After(runs.agent,
                        Agent_retry_on_error_callback(runs.agent.state, request_id, e[1], e[2])),
                    google |-> After(runs.google,
                        GoogleTools_retry_on_error_callback(runs.google.state, request_id, e[1], e[2])),
                    conjure |-> After(runs.conjure,
                        Conjure_retry_on_error_callback(runs.conjure.state, request_id, e[1], e[2])),
                    other |-> After(runs.other,
                        Agent_retry_on_error_callback(runs.other.state, request_id, o[1], o[2])),
                    given |-> Append(runs.given, e),
                    others |-> Append(runs.others, o)]
    /\ UNCHANGED <<retryVars, call>>

\* The framework is about to call the model.
InvokeRateLimit ==
    /\ Len(runs.agent.signals) < MaxInvocations
    /\ runs' = [runs EXCEPT
                   !.agent = After(@, Agent_rate_limit_callback(@.state)),
                   !.google = After(@, GoogleTools_rate_limit_callback(@.state)),
                   !.conjure = After(@, Conjure_rate_limit_callback(@.state)),
                   !.other = After(@, Agent_rate_limit_callback(@.state)),
                   !.given = Append(@, <<"None", "None">>),
                   !.others = Append(@, <<"None", "None">>)]
    /\ UNCHANGED <<retryVars, call>>

RunsNext == InvokeRetry \/ InvokeRateLimit

(* --------------------------- specifications ---------------------------- *)
Init == RetryInit /\ AuthInit /\ runs = IdleRuns

\* the model calls of the agents and their error callback
Next == RetryNext

Spec == Init /\ [][Next]_vars

\* the outbound tool calls and their header providers
SpecAuth == Init /\ [][AuthNext]_vars

\* the three definitions of the callbacks on one sequence of invocations
SpecRuns == RunsInit /\ [][RunsNext]_vars

(* ==================== properties of the retry callback ================= *)
\* number of "retry" entries of a sequence of signals
Retries(s) == Cardinality({n \in DOMAIN s : s[n] = "retry"})

\* requests between invocations of the callback, or finished
Settled(r) ==
    pc[r] \in {"L23", "ready", "calling", "returned", "succeeded", "surfaced"}

\* C1: a request whose first failure finds no entry under its key and that
\* fails until the callback propagates has been given exactly two retry
\* signals before the propagating invocation, and the callback has slept
\* exactly 0.1 s and then 0.2 s for it.
C1_TwoRetriesThenPropagate ==
    \A r \in Requests :
        (found[r] \in {"none", "cleared"} /\ Settled(r) /\ signal[r] = "propagate")
            => /\ signals[r] = <<"retry", "retry", "propagate">>
               /\ sleeps[r] = <<100, 200>>

C1_Witness ==
    \E r \in Requests :
        found[r] = "none" /\ pc[r] = "returned" /\ signal[r] = "propagate"

\* C2: the value returned from the retry branch differs from the value
\* returned on exhaustion.
C2_RetryValueDistinct ==
    \A r \in Requests :
        (pc[r] = "returned" /\ signal[r] = "retry") => ret[r] # ExhaustedReturn

\* C3: an invocation that reads a stored count >= maxAttempts-1 removes the
\* count and the delay entry of its key, does not sleep and signals
\* propagate; the next request failing under that key starts from count 0
\* and the initial delay and is given maxAttempts-1 retries.
C3_ExhaustionClears ==
    \A r \in Requests :
        /\ (pc[r] = "returned" /\ signal[r] = "propagate")
            => /\ MaxAttemptsReached(retry_count[r])
               /\ retry_key(reqId[r]) \notin DOMAIN state
               /\ delay_key(reqId[r]) \notin DOMAIN state
               /\ Len(sleeps[r]) = Retries(signals[r])
        /\ (pc[r] \in {"L48", "L49"}) => Len(sleeps[r]) = Retries(signals[r])
        /\ (found[r] = "cleared" /\ start[r] # <<>>)
            => start[r] = <<0, RETRY_INITIAL_DELAY>>
        /\ (found[r] = "cleared" /\ pc[r] = "returned")
            => /\ Len(signals[r]) = fails[r]
               /\ signal[r] = "retry" <=> fails[r] <= RETRY_MAX_ATTEMPTS - 1
               /\ Retries(signals[r]) = Min(fails[r], RETRY_MAX_ATTEMPTS - 1)

C3_Witness ==
    \E r \in Requests :
        /\ found[r] = "cleared" /\ pc[r] = "returned"
        /\ Retries(signals[r]) = RETRY_MAX_ATTEMPTS - 1

\* what one request is given when it runs alone: the sleeps of n invocations
\* that start from the stored count c and delay d
RECURSIVE AloneSleeps(_, _, _)
AloneSleeps(c, d, n) ==
    IF n = 0 \/ c >= RETRY_MAX_ATTEMPTS - 1 THEN <<>>
    ELSE <<d>> \o AloneSleeps(c + 1, Min(d * RETRY_MULTIPLIER, RETRY_MAX_DELAY), n - 1)

\* ... and the signals of those n invocations
RECURSIVE AloneSignals(_, _)
AloneSignals(c, n) ==
    IF n = 0 THEN <<>>
    ELSE IF c >= RETRY_MAX_ATTEMPTS - 1 THEN <<"propagate">>
    ELSE <<"retry">> \o AloneSignals(c + 1, n - 1)

\* ... and the entries left under its key: <<count, delay>>, <<>> once removed
RECURSIVE AloneStored(_, _, _)
AloneStored(c, d, n) ==
    IF n = 0 THEN <<c, d>>
    ELSE IF c >= RETRY_MAX_ATTEMPTS - 1 THEN <<>>
    ELSE AloneStored(c + 1, Min(d * RETRY_MULTIPLIER, RETRY_MAX_DELAY), n - 1)

\* the entries stored under an id, as <<count, delay>>
Stored(i) ==
    IF {<<"retry_count", i>>, <<"retry_delay", i>>} \subseteq DOMAIN state
    THEN <<state[<<"retry_count", i>>], state[<<"retry_delay", i>>]>>
    ELSE IF {<<"retry_count", i>>, <<"retry_delay", i>>} \cap DOMAIN state = {}
    THEN <<>>
    ELSE <<"torn">>

C4_AsAlone ==
    \A r \in Requests :
        /\ pc[r] # "raised"
        /\ (pc[r] \in {"L23", "ready", "calling", "returned"} /\ fails[r] > 0)
            => /\ sleeps[r] = AloneSleeps(start[r][1], start[r][2], fails[r])
               /\ signals[r] = AloneSignals(start[r][1], fails[r])
               /\ Stored(reqId[r]) = AloneStored(start[r][1], start[r][2], fails[r])

C4_Frame ==
    \A r \in Requests :
        pc'[r] # pc[r] =>
            \A i \in Ids \ {reqId'[r]} :
                \A k \in {<<"retry_count", i>>, <<"retry_delay", i>>} :
                    /\ (k \in DOMAIN state) <=> (k \in DOMAIN state')
                    /\ (k \in DOMAIN state) => state'[k] = state[k]

\* C4: with distinct keys in one state mapping, under every interleaving each
\* request's stored count and delay, sleeps and signals are what it gets
\* running alone, and a step taken for one key leaves every other key's
\* entries as they were.
C4_Isolation == []C4_AsAlone /\ [][C4_Frame]_vars

C4_Witness ==
    \E r, q \in Requests :
        /\ r # q /\ reqId[r] # reqId[q]
        /\ pc[r] = "L56" /\ fails[r] = 2
        /\ pc[q] = "L56" /\ fails[q] = 1

\* C5: the key of a request is the same at every invocation made for it, and
\* no invocation reads or updates an entry that another request's failure
\* created.
C5_KeyNeverShared ==
    /\ borrowed = {}
    /\ \A r \in Requests :
           (pc[r] \notin Ended /\ retry_key(reqId[r]) \in DOMAIN state)
               => owner[reqId[r]] = r

\* C6: once a request that failed at least once has succeeded, the entries
\* left under its key hold count 0 and the initial delay.
C6_ZeroedAfterSuccess ==
    \A r \in Requests :
        (/\ pc[r] = "succeeded" /\ fails[r] >= 1
         /\ reqId[r] \notin LiveIds
         /\ \A q \in Requests : (q > r /\ reqId[q] = reqId[r]) => fails[q] = 0)
            => Stored(reqId[r]) \in {<<>>, <<0, RETRY_INITIAL_DELAY>>}

\* C11: any two consecutive dispatches of a model call, of whichever
\* requests, are at least one rate-limit interval (0.1 s) apart.
C11_DispatchesOneIntervalApart ==
    lastGap # -1 => lastGap * TickMs >= RATE_LIMIT_INTERVAL

C12_Blocked ==
    \A r \in Requests :
        pc[r] \in {"ready", "calling"}
            => /\ throttle[r] >= RATE_LIMIT_INTERVAL
               /\ rl_ret[r] = None

C12_Frame ==
    \A r \in Requests :
        (pc[r] = "L23" /\ pc'[r] # "L23")
            => /\ pc'[r] = "ready"
               /\ state' = state

\* C12: every invocation of rate_limit_callback blocks its caller for at
\* least 0.1 s before the model call is dispatched, returns None, has no other
\* outcome and leaves callback_context.state as it was.
C12_RateLimitOnlyDelays == []C12_Blocked /\ [][C12_Frame]_vars

C12_Witness ==
    \E r \in Requests :
        pc[r] = "calling" /\ fails[r] = 1 /\ DOMAIN state # {}

\* C13: retry_on_error_callback never raises: every subscript and every del
\* finds its entry, under every interleaving.
C13_CallbackNeverRaises ==
    \A r \in Requests :
        /\ pc[r] # "raised"
        /\ pc[r] \in {"L42", "L53", "L56", "L59"}
            => {<<"retry_count", reqId[r]>>, <<"retry_delay", reqId[r]>>}
                   \subseteq DOMAIN state
        /\ pc[r] = "L48" => <<"retry_count", reqId[r]>> \in DOMAIN state
        /\ pc[r] = "L49" => <<"retry_delay", reqId[r]>> \in DOMAIN state

C13_Witness ==
    \E r, q \in Requests :
        /\ r # q
        /\ pc[r] = "L49"
        /\ pc[q] = "L48"

\* the delays are in no place smaller than the one before
NonDecreasing(seq) == \A n \in 1..(Len(seq) - 1) : seq[n] <= seq[n + 1]

\* C14: every stored delay lies between the initial and the maximal delay,
\* and the sleeps made for one request never decrease.
C14_DelayWithinBounds ==
    /\ \A i \in Ids :
           <<"retry_delay", i>> \in DOMAIN state
               => /\ state[<<"retry_delay", i>>] >= RETRY_INITIAL_DELAY
                  /\ state[<<"retry_delay", i>>] <= RETRY_MAX_DELAY
    /\ \A r \in Requests : NonDecreasing(sleeps[r])

C14_Witness ==
    \E r \in Requests :
        /\ sleeps[r] = <<100, 200>>
        /\ <<"retry_delay", reqId[r]>> \in DOMAIN state
        /\ state[<<"retry_delay", reqId[r]>>] = 400

\* C17: an invocation that returns from the retry branch has raised the stored
\* count by one, slept the delay stored before it, and stored
\* min(that delay * multiplier, maxDelay); a first failure that finds no entry
\* starts from count 0 and the initial delay.
C17_RetryStep ==
    \A r \in Requests :
        /\ (pc[r] = "returned" /\ signal[r] = "retry")
            => /\ state[<<"retry_count", reqId[r]>>] = retry_count[r] + 1
               /\ sleeps[r][Len(sleeps[r])] = current_delay[r]
               /\ state[<<"retry_delay", reqId[r]>>]
                      = Min(current_delay[r] * RETRY_MULTIPLIER, RETRY_MAX_DELAY)
               /\ <<retry_count[r], current_delay[r]>>
                      = AloneStored(start[r][1], start[r][2], fails[r] - 1)
        /\ (found[r] \in {"none", "cleared"} /\ start[r] # <<>>)
            => start[r] = <<0, RETRY_INITIAL_DELAY>>

C17_Witness ==
    \E r \in Requests :
        /\ pc[r] = "returned" /\ signal[r] = "retry" /\ fails[r] = 2
        /\ found[r] = "none"

\* C18: no request is retried forever: the callback is invoked at most
\* maxAttempts times for it, and the invocation number maxAttempts, if it
\* comes, takes the exhaustion branch.
C18_BoundedRetries ==
    \A r \in Requests :
        /\ fails[r] <= RETRY_MAX_ATTEMPTS
        /\ Retries(signals[r]) <= RETRY_MAX_ATTEMPTS - 1
        /\ (fails[r] = RETRY_MAX_ATTEMPTS /\ pc[r] = "returned")
            => signal[r] = "propagate"
        /\ signal[r] = "propagate" => pc[r] \in {"returned", "surfaced"}

C18_Witness ==
    \E r \in Requests :
        fails[r] = RETRY_MAX_ATTEMPTS /\ pc[r] = "surfaced"

RECURSIVE SumSeq(_)
SumSeq(seq) == IF seq = <<>> THEN 0 ELSE Head(seq) + SumSeq(Tail(seq))

\* C20: the sleeps made for one request add up to at most
\* initialDelay + initialDelay * multiplier (300 ms).
C20_TotalSleepBounded ==
    \A r \in Requests :
        /\ SumSeq(sleeps[r]) <= RETRY_INITIAL_DELAY + RETRY_INITIAL_DELAY * RETRY_MULTIPLIER
        /\ SumSeq(sleeps[r]) <= 300

C20_Witness ==
    \E r \in Requests :
        pc[r] = "surfaced" /\ signal[r] = "propagate" /\ SumSeq(sleeps[r]) = 300

\* positions inside retry_on_error_callback
InCallback == {"L38", "L40", "L42", "L48", "L49", "L53", "L56", "L59"}

\* an invocation of the callback is in progress for the key of id i
InProgress(i) == \E r \in Requests : reqId[r] = i /\ pc[r] \in InCallback

\* C21: while no invocation is in progress for a key, its count entry is in
\* the state exactly when its delay entry is.
C21_EntriesPaired ==
    \A i \in Ids :
        ~InProgress(i)
            => (<<"retry_count", i>> \in DOMAIN state
                    <=> <<"retry_delay", i>> \in DOMAIN state)

C21_Witness ==
    \E i, j \in Ids :
        /\ ~InProgress(i)
        /\ {<<"retry_count", i>>, <<"retry_delay", i>>} \subseteq DOMAIN state
        /\ \E r \in Requests : reqId[r] = j /\ pc[r] = "L49"
        /\ <<"retry_count", j>> \notin DOMAIN state
        /\ <<"retry_delay", j>> \in DOMAIN state

RECURSIVE Pow(_, _)
Pow(b, e) == IF e = 0 THEN 1 ELSE b * Pow(b, e - 1)

\* min(initialDelay * multiplier^attemptCount, maxDelay)
DelayFor(count) ==
    Min(RETRY_INITIAL_DELAY * Pow(RETRY_MULTIPLIER, count), RETRY_MAX_DELAY)

\* the entries of id i are both stored and the delay is the one for the count
DelayMatchesCount(i) ==
    state[<<"retry_delay", i>>] = DelayFor(state[<<"retry_count", i>>])

\* C22: whenever both entries of a key are stored, the delay is
\* min(initialDelay * multiplier^count, maxDelay), except while an invocation
\* for the key stands between its count update and its delay update.
C22_DelayFollowsCount ==
    \A i \in Ids :
        {<<"retry_count", i>>, <<"retry_delay", i>>} \subseteq DOMAIN state
            => \/ DelayMatchesCount(i)
               \/ \E r \in Requests : reqId[r] = i /\ pc[r] \in {"L56", "L59"}

C22_Witness ==
    \E i, j \in Ids :
        /\ ~InProgress(i)
        /\ {<<"retry_count", i>>, <<"retry_delay", i>>} \subseteq DOMAIN state
        /\ state[<<"retry_count", i>>] = 2
        /\ DelayMatchesCount(i)
        /\ \E r \in Requests : reqId[r] = j /\ pc[r] = "L56"
        /\ ~DelayMatchesCount(j)

\* C23: a stored count is below maxAttempts; it is 0 only inside the
\* invocation that created the entry, before its count update, so that after
\* every return the stored counts lie in 1..maxAttempts-1.
C23_CountInRange ==
    \A i \in Ids :
        <<"retry_count", i>> \in DOMAIN state
            => /\ state[<<"retry_count", i>>] \in 0..(RETRY_MAX_ATTEMPTS - 1)
               /\ state[<<"retry_count", i>>] = 0
                    => \E r \in Requests :
                           /\ reqId[r] = i
                           /\ owner[i] = r
                           /\ pc[r] \in {"L40", "L42", "L53"}
               /\ ~InProgress(i)
                    => state[<<"retry_count", i>>] \in 1..(RETRY_MAX_ATTEMPTS - 1)

C23_Witness ==
    \E i, j \in Ids :
        /\ ~InProgress(i)
        /\ <<"retry_count", i>> \in DOMAIN state
        /\ state[<<"retry_count", i>>] = RETRY_MAX_ATTEMPTS - 1
        /\ <<"retry_count", j>> \in DOMAIN state
        /\ state[<<"retry_count", j>>] = 0

\* an entry is removed only by the deletes of an invocation for its own key,
\* and changed only by an invocation for its own key
C24_Frame ==
    \A key \in DOMAIN state :
        (key \notin DOMAIN state' \/ state'[key] # state[key])
            => \E r \in Requests :
                   /\ key \in {retry_key(reqId[r]), delay_key(reqId[r])}
                   /\ pc[r] \in InCallback
                   /\ pc'[r] # pc[r]
                   /\ key \notin DOMAIN state' => pc[r] \in {"L48", "L49"}

\* the entries of a request that failed and then succeeded are still stored
C24_Persist ==
    \A r \in Requests :
        (pc[r] = "succeeded" /\ fails[r] >= 1)
            => {retry_key(reqId[r]), delay_key(reqId[r])} \subseteq DOMAIN state

\* C24: an entry is removed only by an exhaustion invocation for its own key
\* and by no other operation, so the entries of a request that failed and then
\* stopped failing stay in the state for good.
C24_RemovedOnlyByOwnExhaustion == []C24_Persist /\ [][C24_Frame]_vars

(* =============== properties of the identity-token minting ============== *)
\* the URL configured for a service
ServiceUrl(svc) ==
    IF svc = "LumosDB" THEN "https://lumosdb.example" ELSE "https://lumostrade.example"

\* the pieces of a text
Pieces(text) == {text[n] : n \in DOMAIN text}

\* the identity tokens a header mapping carries
TokensIn(h) ==
    IF DOMAIN h = {"Authorization"}
    THEN {x \in Pieces(h.Authorization) : x.t = "jwt"} ELSE {}

\* the call has left get_id_token_for_service
Minted(c) == call[c].pc \in {"returned", "raised", "done", "escaped"}

\* C7: the Authorization header returned for a service carries a token whose
\* audience is that service's configured URL, never the other service's.
C7_TokenForOwnAudience ==
    \A c \in Calls :
        (call[c].pc = "done" /\ DOMAIN call[c].headers # {})
            => /\ TokensIn(call[c].headers) # {}
               /\ \A x \in TokensIn(call[c].headers) :
                      /\ x.a = ServiceUrl(call[c].svc)
                      /\ \A other \in {"LumosDB", "LumosTradeTool"} \ {call[c].svc} :
                             x.a # ServiceUrl(other)

C7_Witness ==
    \E c, d \in Calls :
        /\ call[c].pc = "done" /\ call[c].svc = "LumosDB"
        /\ call[d].pc = "done" /\ call[d].svc = "LumosTradeTool"
        /\ TokensIn(call[c].headers) # {}
        /\ TokensIn(call[d].headers) # {}

\* C8: with an impersonation identity configured, every failure of the CLI
\* step (non-zero exit, missing binary) is followed by the ambient path, whose
\* outcome is the call's outcome.
C8_AnyCliFailureFallsThrough ==
    \A c \in Calls :
        (/\ Minted(c)
         /\ Truthy(call[c].agent_service_account)
         /\ call[c].cli \in {"CalledProcessError", "FileNotFoundError"})
            => /\ Len(call[c].steps) >= 2
               /\ call[c].steps[2] = "default"

\* the three outcomes of get_id_token_for_service, and the message of the
\* credentials error
C9_Outcomes(c) ==
    /\ call[c].result.kind \in {"value", "error"}
    /\ call[c].result.kind = "value"
        => /\ Len(call[c].result.value) = 2
           /\ call[c].result.value[1] = [t |-> "lit", a |-> "Bearer ", b |-> "", n |-> 0]
           /\ call[c].result.value[2].t = "jwt"
    /\ call[c].result.kind = "error"
        => call[c].result.type \in {"DefaultCredentialsError", "RuntimeError"}
    /\ (call[c].result.kind = "error" /\ call[c].result.type = "DefaultCredentialsError")
        => {[t |-> "lit", a |-> "If running locally, ", b |-> "", n |-> 0],
            [t |-> "lit", a |-> "If running in Cloud Run, ", b |-> "", n |-> 0]}
               \subseteq Pieces(call[c].result.value)

IsCredentialsUnavailable(c) ==
    call[c].result.kind = "error" /\ call[c].result.type = "DefaultCredentialsError"

\* C9 as stated: the credentials error exactly when no ambient credentials
\* are discoverable.
C9_CredentialsErrorIffNoAdc ==
    \A c \in Calls :
        Minted(c) => /\ C9_Outcomes(c)
                     /\ IsCredentialsUnavailable(c) <=> ~call[c].adc

\* C9 amended: every call ends with "Bearer <token>", the credentials error
\* (whose text names the local and the hosted configuration) or RuntimeError;
\* the credentials error exactly when the ambient path was entered and one of
\* its steps raised DefaultCredentialsError, which is what happens whenever it
\* is entered with no ambient credentials discoverable; RuntimeError for every
\* other failure.
C9_CredentialsErrorIffAmbientRaisedIt ==
    \A c \in Calls :
        Minted(c) =>
            /\ C9_Outcomes(c)
            /\ IsCredentialsUnavailable(c)
                <=> /\ call[c].result.kind = "error"
                    /\ "default" \in Pieces(call[c].steps)
                    /\ call[c].exc = "DefaultCredentialsError"
            /\ ("default" \in Pieces(call[c].steps) /\ ~call[c].adc)
                => IsCredentialsUnavailable(c)
            /\ (call[c].result.kind = "error" /\ ~IsCredentialsUnavailable(c))
                => call[c].result.type = "RuntimeError"

C9_Witness ==
    \E c, d \in Calls :
        /\ call[c].pc = "raised" /\ IsCredentialsUnavailable(c)
        /\ ~call[c].adc /\ ~Truthy(call[c].agent_service_account)
        /\ call[d].pc = "raised" /\ call[d].result.type = "RuntimeError"

\* C10: the header providers never let an exception out; they return the empty
\* mapping when the minter raised either error, and the one-entry mapping
\* Authorization -> the minter's string when it returned.
C10_ProviderNeverRaises ==
    \A c \in Calls :
        /\ call[c].pc # "escaped"
        /\ call[c].pc = "done"
            => /\ call[c].result.kind = "error" => DOMAIN call[c].headers = {}
               /\ call[c].result.kind = "value"
                    => /\ DOMAIN call[c].headers = {"Authorization"}
                       /\ call[c].headers.Authorization = call[c].result.value
                       /\ call[c].result.value[1] = [t |-> "lit", a |-> "Bearer ", b |-> "", n |-> 0]

C10_Witness ==
    \E c, d \in Calls :
        /\ call[c].pc = "done" /\ IsCredentialsUnavailable(c)
        /\ DOMAIN call[c].headers = {}
        /\ call[d].pc = "done" /\ call[d].result.kind = "value"
        /\ DOMAIN call[d].headers = {"Authorization"}

\* the text without any white space
NoSpace(text) == SelectSeq(text, LAMBDA x : x.t # "ws")

\* C15: with an impersonation identity configured and the CLI succeeding for
\* the requested audience, get_id_token_for_service returns "Bearer " followed
\* by the CLI's output without its surrounding white space, and the CLI is the
\* only step it takes: the ambient credentials are not looked up, refreshed or
\* asked for a token.
C15_ImpersonationReturnsAtOnce ==
    \A c \in Calls :
        call[c].cli = "ok"
            => /\ Truthy(call[c].agent_service_account)
               /\ call[c].pc \in {"returned", "done"}
               /\ call[c].steps = <<"gcloud">>
               /\ call[c].result.kind = "value"
               /\ call[c].result.value
                      = <<[t |-> "lit", a |-> "Bearer ", b |-> "", n |-> 0]>>
                            \o NoSpace(call[c].stdout)
               /\ \A x \in Pieces(call[c].result.value) :
                      x.t = "jwt" => x.a = call[c].audience_url /\ x.b = "gcloud"

C15_Witness ==
    \E c \in Calls :
        /\ call[c].cli = "ok" /\ call[c].pc = "returned"
        /\ call[c].adc
        /\ Len(call[c].stdout) = 3

\* the number of provider invocations made, and of the calls of
\* get_id_token_for_service they made
Invocations == Cardinality({c \in Calls : call[c].pc # "idle"})

RECURSIVE MintAttempts(_)
MintAttempts(n) == IF n = 0 THEN 0 ELSE call[n].mints + MintAttempts(n - 1)

\* C16: every invocation of a header provider calls get_id_token_for_service
\* exactly once, and a header it returns carries the one token issued to that
\* very invocation, never a token issued to an earlier one.
C16_OneMintPerInvocation ==
    /\ MintAttempts(MaxCalls) = Invocations
    /\ \A c \in Calls :
        /\ call[c].pc # "idle" => call[c].mints = 1
        /\ (call[c].pc = "done" /\ DOMAIN call[c].headers # {})
            => /\ Cardinality(TokensIn(call[c].headers)) = 1
               /\ \A x \in TokensIn(call[c].headers) : x.n = c
               /\ call[c].steps[Len(call[c].steps)] \in {"gcloud", "fetch_id_token"}

C16_Witness ==
    \E c, d \in Calls :
        /\ c < d
        /\ call[c].pc = "done" /\ call[d].pc = "done"
        /\ call[c].svc = call[d].svc
        /\ TokensIn(call[c].headers) # {}
        /\ TokensIn(call[d].headers) # {}
        /\ call[c].steps = call[d].steps

\* C19: with no impersonation identity configured the CLI is never run: the
\* steps of get_id_token_for_service are the ambient ones, in their order.
C19_NoIdentityNoCli ==
    \A c \in Calls :
        (call[c].pc \notin {"idle", "L29"} /\ call[c].agent_service_account = "None")
            => /\ "gcloud" \notin Pieces(call[c].steps)
               /\ call[c].cli = ""
               /\ call[c].stdout = <<>>
               /\ call[c].pc # "L33"
               /\ \E n \in 0..3 :
                      call[c].steps = SubSeq(<<"default", "refresh", "fetch_id_token">>, 1, n)
               /\ Minted(c) => call[c].steps # <<>>

C19_Witness ==
    \E c \in Calls :
        /\ call[c].agent_service_account = "None"
        /\ call[c].pc = "done"
        /\ call[c].steps = <<"default", "refresh", "fetch_id_token">>
        /\ TokensIn(call[c].headers) # {}

(* ============ properties of the definitions run side by side =========== *)
\* what of a run the framework and the state mapping show
Shown(run) == <<run.signals, run.rets, run.sleeps, run.state>>

\* C25: the branch taken, the sleeps and the stored state of
\* retry_on_error_callback do not depend on the error or exception passed: the
\* same invocations with other errors give the same signals, sleeps and states.
C25_ErrorsDoNotMatter == Shown(runs.other) = Shown(runs.agent)

C25_Witness ==
    /\ Len(runs.given) = MaxInvocations
    /\ \A n \in DOMAIN runs.given : runs.given[n] # runs.others[n]
    /\ runs.agent.signals = <<"retry", "retry", "propagate">>

\* C26: the definitions of GoogleTools.py and LumosConjureAgent/agent.py give,
\* on every sequence of invocations from equal states, the signals, sleeps and
\* stored states that the definitions of LumosChatAgent/agent.py give.
C26_DefinitionsEquivalent ==
    /\ Shown(runs.google) = Shown(runs.agent)
    /\ Shown(runs.conjure) = Shown(runs.agent)
    /\ "KeyError" \notin {runs.agent.signals[n] : n \in DOMAIN runs.agent.signals}

C26_Witness ==
    /\ runs.conjure.signals = <<"proceed", "retry", "propagate">>
    /\ runs.conjure.sleeps = <<100, 200>>
    /\ runs.google.state = <<>>

====
